---- MODULE Spec2Model ----
(***************************************************************************)
(* Model of the generative-AI server action add-on:                        *)
(*   - the service factory (models/ai_service.py, AiServiceFactory),       *)
(*   - the four service adapters (OpenAI, Anthropic, Gemini, OpenRouter),  *)
(*   - the action orchestrator (models/ir_actions_server.py).              *)
(* Texts are sequences of tokens, so that concatenation and formatting are *)
(* real operations; Python dicts with optional keys are functions whose     *)
(* DOMAIN is the set of keys present.                                       *)
(***************************************************************************)
EXTENDS Integers, Sequences, FiniteSets, TLC

VARIABLES
    providers,    \* the ai.provider table, ordered by id (index = id)
    env_company,  \* self.env.company.id
    svc,          \* last get_service call and what it produced
    gen,          \* last generate_text call and what it produced
    cfg,          \* the server action's configuration
    pc,           \* position of _run_action_generative_ai
    batch,        \* records of the running invocation (active_ids)
    idx,          \* index in batch of the record being processed
    service,      \* adapter held by the running invocation
    prompt,       \* rendered prompt of the current record
    files,        \* AIFiles gathered for the current record
    found,        \* attachments the search returned for the current record
    response,     \* generate_text result kept for the current record
    notified,     \* warnings shown during the invocation (title, record)
    notes,        \* per record: bodies of the notes posted on it
    fieldval,     \* per record: value of each written field
    outcome,      \* what the invocation reported to its caller
    trace,        \* steps of the running invocation, in order
    invocations,  \* number of invocations started
    env,          \* what a record holds, drawn for the gathering helpers
    wizard,       \* the preview.prompt wizard of the action
    img           \* a call of is_image_mimetype: its argument and result

vars == <<providers, env_company, svc, gen, cfg, pc, batch, idx, service, prompt, files,
          found, response, notified, notes, fieldval, outcome, trace,
          invocations, env, wizard, img>>

factoryVars == <<providers, env_company, svc>>
orchVars == <<cfg, pc, batch, idx, service, prompt, files, found, response,
              notified, notes, fieldval, outcome, trace, invocations, env,
              wizard, img>>

----------------------------------------------------------------------------
(* Bounds *)

MaxProviders == 2
MaxFiles == 2
MaxInvocations == 2
MaxFilesLimit == 2

----------------------------------------------------------------------------
(* Python helpers *)

\* dict.get(key, default)
Get(d, k, default) == IF k \in DOMAIN d THEN d[k] ELSE default

EmptyDict == <<>>

\* A value that stands for Python's None where a dict is expected.
None == [isNone |-> TRUE]

\* `x or {}` : None and the empty dict are both falsy
OrEmptyDict(x) == IF x = None \/ DOMAIN x = {} THEN EmptyDict ELSE x

Last(s) == s[Len(s)]

BoundedSeq(S, n) == UNION {[1..k -> S] : k \in 0..n}

----------------------------------------------------------------------------
(* tools/img_utils.py *)

ALLOWED_IMAGE_TYPES ==
    {"image/png", "image/jpeg", "image/jpg", "image/gif", "image/webp",
     "image/bmp", "image/svg+xml", "image/tiff"}

is_image_mimetype_anyCase(mimetype) ==
    mimetype \in ALLOWED_IMAGE_TYPES \cup {"IMAGE/PNG", "Image/Jpeg"}

is_image_mimetype(mimetype) == mimetype \in ALLOWED_IMAGE_TYPES

\* No call of is_image_mimetype made.
NoImg == [mimetype |-> "", called |-> FALSE, result |-> FALSE]

----------------------------------------------------------------------------
(* File contents.  "s1" is a str holding valid base64, "b2" is bytes        *)
(* holding valid base64, "bx" is bytes that are neither valid UTF-8 nor     *)
(* valid base64.                                                            *)

Data == {"s1", "b2", "bx"}

\* tools/string_utils.decode_string: bytes -> str, a str is returned as is;
\* undecodable bytes raise.
decode_string(d) ==
    CASE d = "s1" -> [ok |-> TRUE, val |-> "s1"]
      [] d = "b2" -> [ok |-> TRUE, val |-> "s2"]
      [] OTHER    -> [ok |-> FALSE, val |-> "UnicodeDecodeError"]

\* base64.b64decode: str or bytes of base64 -> the raw bytes; raises otherwise
b64decode(d) ==
    CASE d = "s1" -> [ok |-> TRUE, val |-> "raw1"]
      [] d = "b2" -> [ok |-> TRUE, val |-> "raw2"]
      [] OTHER    -> [ok |-> FALSE, val |-> "binascii.Error"]

----------------------------------------------------------------------------
(* models/ai_provider.py: the ai.provider rows *)

Codes == {"openai", "anthropic", "google", "openrouter", "custom"}
Companies == {1, 2}
\* "" is an unset api_key
ApiKeys == {"", "k1", "k2"}

AiProvider == [code : Codes, company_id : Companies, api_key : ApiKeys,
               active : BOOLEAN]

----------------------------------------------------------------------------
(* models/ai_service.py: results of a call *)

Return(t) == [kind |-> "return", exc |-> "", msg |-> <<>>, text |-> t]
Raise(e, m) == [kind |-> "raise", exc |-> e, msg |-> m, text |-> <<>>]

----------------------------------------------------------------------------
(* models/ai_service.py: AiService base class *)

ChatterHeader == "\n\nCHATTER HISTORY:\n"

_prepare_prompt_with_chatter_always(p, fs) ==
    LET chatter == Get(OrEmptyDict(fs), "chatter", <<>>)
    IN  p \o <<ChatterHeader>> \o chatter

_prepare_prompt_with_chatter(p, fs) ==
    LET chatter == Get(OrEmptyDict(fs), "chatter", <<>>)
    IN  IF chatter # <<>> THEN p \o <<ChatterHeader>> \o chatter ELSE p

_get_file_data(fs) == Get(OrEmptyDict(fs), "file_data", <<>>)

\* What the vendor endpoint does with a submitted request.
VendorBehaviours == {"ok", "empty", "nocontent", "error"}

\* The generated text of a successful vendor call.
Answer == <<"md">>

\* generate_text ended: what was submitted and what the caller got.
Called(submitted, sent, ret) ==
    [submitted |-> submitted, sent |-> sent, ret |-> ret]

----------------------------------------------------------------------------
(* OpenAIService *)

OpenAIPart(fd, file_string) ==
    LET mime_type == Get(fd, "mimetype", "application/pdf")
        url == <<"data:", mime_type, ";base64,", file_string>>
    IN  IF is_image_mimetype(mime_type)
        THEN [type |-> "input_image", image_url |-> url]
        ELSE [type |-> "input_file", file_data |-> url,
              filename |-> Get(fd, "filename", "document.pdf")]

RECURSIVE OpenAIFileLoop(_, _, _)
OpenAIFileLoop(fds, i, content) ==
    IF i > Len(fds) THEN [ok |-> TRUE, exc |-> "", content |-> content]
    ELSE LET dec == decode_string(fds[i]["data"])
         IN  IF ~dec.ok
             THEN [ok |-> FALSE, exc |-> dec.val, content |-> content]
             ELSE OpenAIFileLoop(fds, i + 1,
                                 Append(content, OpenAIPart(fds[i], dec.val)))

OpenAIGenerateText(p, fs, vendor) ==
    LET loop == OpenAIFileLoop(_get_file_data(fs), 1, <<>>)
        content == Append(loop.content,
                          [type |-> "input_text",
                           text |-> _prepare_prompt_with_chatter(p, fs)])
    IN  IF ~loop.ok THEN Called(FALSE, <<>>, Raise(loop.exc, <<loop.exc>>))
        ELSE IF vendor = "error"
        THEN Called(TRUE, content,
                    Raise("UserError", <<"Error calling OpenAI API\n", "APIError">>))
        ELSE Called(TRUE, content,
                    Return(IF vendor = "ok" THEN Answer ELSE <<>>))

----------------------------------------------------------------------------
(* AnthropicService *)

AnthropicPart(fd, file_string) ==
    LET mime_type == Get(fd, "mimetype", "application/pdf")
    IN  [type |-> IF is_image_mimetype(mime_type) THEN "image" ELSE "document",
         source |-> [type |-> "base64", media_type |-> mime_type,
                     data |-> file_string]]

RECURSIVE AnthropicFileLoop(_, _, _)
AnthropicFileLoop(fds, i, content) ==
    IF i > Len(fds) THEN [ok |-> TRUE, exc |-> "", content |-> content]
    ELSE LET dec == decode_string(fds[i]["data"])
         IN  IF ~dec.ok
             THEN [ok |-> FALSE, exc |-> dec.val, content |-> content]
             ELSE AnthropicFileLoop(fds, i + 1,
                                    Append(content, AnthropicPart(fds[i], dec.val)))

AnthropicGenerateText_textFirst(p, fs, vendor) ==
    LET loop == AnthropicFileLoop(_get_file_data(fs), 1, <<>>)
        content == <<[type |-> "text",
                      text |-> _prepare_prompt_with_chatter(p, fs)]>>
                   \o loop.content
        prefix == "Error calling Anthropic API\n"
    IN  IF ~loop.ok THEN Called(FALSE, <<>>, Raise(loop.exc, <<loop.exc>>))
        ELSE IF vendor = "error"
        THEN Called(TRUE, content, Raise("UserError", <<prefix, "APIError">>))
        ELSE IF vendor = "nocontent"
        THEN Called(TRUE, content, Raise("UserError", <<prefix, "IndexError">>))
        ELSE Called(TRUE, content,
                    Return(IF vendor = "ok" THEN Answer ELSE <<>>))

AnthropicGenerateText(p, fs, vendor) ==
    LET loop == AnthropicFileLoop(_get_file_data(fs), 1, <<>>)
        content == Append(loop.content,
                          [type |-> "text",
                           text |-> _prepare_prompt_with_chatter(p, fs)])
        prefix == "Error calling Anthropic API\n"
    IN  IF ~loop.ok THEN Called(FALSE, <<>>, Raise(loop.exc, <<loop.exc>>))
        ELSE IF vendor = "error"
        THEN Called(TRUE, content, Raise("UserError", <<prefix, "APIError">>))
        ELSE IF vendor = "nocontent"   \* response.content[0] on an empty list
        THEN Called(TRUE, content, Raise("UserError", <<prefix, "IndexError">>))
        ELSE Called(TRUE, content,
                    Return(IF vendor = "ok" THEN Answer ELSE <<>>))

----------------------------------------------------------------------------
(* GoogleGeminiService *)

GeminiPart(fd, file_bytes) ==
    [inline_data |-> [data |-> file_bytes,
                      mime_type |-> Get(fd, "mimetype", "application/pdf")]]

GeminiTextPart(t) == [text |-> t]

RECURSIVE GeminiFileLoop(_, _, _)
GeminiFileLoop(fds, i, contents) ==
    IF i > Len(fds) THEN contents
    ELSE LET dec == b64decode(fds[i]["data"])
         IN  IF ~dec.ok
             THEN GeminiFileLoop(fds, i + 1, contents)   \* logged, file skipped
             ELSE GeminiFileLoop(fds, i + 1,
                                 Append(contents, GeminiPart(fds[i], dec.val)))

GoogleGeminiGenerateText(p, fs, vendor) ==
    LET contents == Append(GeminiFileLoop(_get_file_data(fs), 1, <<>>),
                           GeminiTextPart(_prepare_prompt_with_chatter(p, fs)))
    IN  IF vendor = "error"
        THEN Called(TRUE, contents,
                    Raise("UserError",
                          <<"Error calling Google Gemini API\n", "APIError">>))
        ELSE Called(TRUE, contents,
                    Return(IF vendor = "ok" THEN Answer ELSE <<>>))

----------------------------------------------------------------------------
(* OpenRouterService *)

OpenRouterPart(fd, file_string) ==
    LET mime_type == Get(fd, "mimetype", "application/pdf")
        url == <<"data:", mime_type, ";base64,", file_string>>
    IN  IF is_image_mimetype(mime_type)
        THEN [type |-> "input_image", image_url |-> url]
        ELSE [type |-> "input_file", file_data |-> url,
              filename |-> Get(fd, "filename", "document.pdf")]

RECURSIVE OpenRouterFileLoop(_, _, _)
OpenRouterFileLoop(fds, i, content) ==
    IF i > Len(fds) THEN [ok |-> TRUE, exc |-> "", content |-> content]
    ELSE LET dec == decode_string(fds[i]["data"])
         IN  IF ~dec.ok
             THEN [ok |-> FALSE, exc |-> dec.val, content |-> content]
             ELSE OpenRouterFileLoop(fds, i + 1,
                                     Append(content, OpenRouterPart(fds[i], dec.val)))

OpenRouterGenerateText(p, fs, vendor) ==
    LET loop == OpenRouterFileLoop(_get_file_data(fs), 1, <<>>)
        content == Append(loop.content,
                          [type |-> "input_text",
                           text |-> _prepare_prompt_with_chatter(p, fs)])
    IN  IF ~loop.ok THEN Called(FALSE, <<>>, Raise(loop.exc, <<loop.exc>>))
        ELSE IF vendor = "error"
        THEN Called(TRUE, content,
                    Raise("UserError",
                          <<"Error calling OpenRouter API\n", "APIError">>))
        ELSE Called(TRUE, content,
                    Return(IF vendor = "ok" THEN Answer ELSE <<>>))

----------------------------------------------------------------------------
(* Dispatch on the adapter's class: ai_service.generate_text(...) *)

ServiceClasses == {"OpenAIService", "AnthropicService", "GoogleGeminiService",
                   "OpenRouterService"}

generate_text(cls, p, fs, vendor) ==
    CASE cls = "OpenAIService"       -> OpenAIGenerateText(p, fs, vendor)
      [] cls = "AnthropicService"    -> AnthropicGenerateText(p, fs, vendor)
      [] cls = "GoogleGeminiService" -> GoogleGeminiGenerateText(p, fs, vendor)
      [] cls = "OpenRouterService"   -> OpenRouterGenerateText(p, fs, vendor)

\* The record kept of a generate_text call.
GenCall(cls, p, fs, vendor) ==
    LET r == generate_text(cls, p, fs, vendor)
    IN  [called |-> TRUE, cls |-> cls, prompt |-> p, files |-> fs,
         vendor |-> vendor, submitted |-> r.submitted, sent |-> r.sent,
         ret |-> r.ret]

NoGen == [called |-> FALSE, cls |-> "", prompt |-> <<>>, files |-> None,
          vendor |-> "", submitted |-> FALSE, sent |-> <<>>, ret |-> Return(<<>>)]

----------------------------------------------------------------------------
(* AiServiceFactory *)

\* _get_service_mapping: provider code -> service class
ServiceMapping ==
    [c \in {"google", "openai", "anthropic", "openrouter"} |->
        CASE c = "google"     -> "GoogleGeminiService"
          [] c = "openai"     -> "OpenAIService"
          [] c = "anthropic"  -> "AnthropicService"
          [] c = "openrouter" -> "OpenRouterService"]

\* The search domain of get_service, applied to one row.
ProviderMatches_anyState(row, provider_code, company_id) ==
    /\ row.code = provider_code
    /\ (company_id # 0 => row.company_id = company_id)

ProviderMatches(row, provider_code, company_id) ==
    /\ row.code = provider_code
    /\ row.active
    /\ (company_id # 0 => row.company_id = company_id)

\* search(domain, limit=1) with _order = "id, sequence": the lowest id that
\* matches, 0 for the empty recordset.
SearchProvider(table, provider_code, company_id) ==
    LET ids == {i \in 1..Len(table) :
                    ProviderMatches(table[i], provider_code, company_id)}
    IN  IF ids = {} THEN 0 ELSE CHOOSE i \in ids : \A j \in ids : i <= j

NoAdapter == [cls |-> "", provider |-> 0, api_key |-> ""]

ServiceResult(kind, err, adapter) ==
    [kind |-> kind, err |-> err, adapter |-> adapter]

\* get_service without the test on api_key
get_service_noCredentialTest(table, company, provider_code, company_id) ==
    LET eff == IF company_id = 0 THEN company ELSE company_id
        provider == SearchProvider(table, provider_code, eff)
    IN  IF provider = 0
        THEN ServiceResult("raise", "not_found", NoAdapter)
        ELSE IF provider_code \in DOMAIN ServiceMapping
        THEN ServiceResult("adapter", "",
                           [cls |-> ServiceMapping[provider_code],
                            provider |-> provider,
                            api_key |-> table[provider].api_key])
        ELSE ServiceResult("raise", "unsupported", NoAdapter)

\* get_service falling back to the OpenAI client for an unknown code
get_service_defaultClass(table, company, provider_code, company_id) ==
    LET eff == IF company_id = 0 THEN company ELSE company_id
        provider == SearchProvider(table, provider_code, eff)
    IN  IF provider = 0
        THEN ServiceResult("raise", "not_found", NoAdapter)
        ELSE IF table[provider].api_key = ""
        THEN ServiceResult("raise", "no_credentials", NoAdapter)
        ELSE ServiceResult("adapter", "",
                           [cls |-> IF provider_code \in DOMAIN ServiceMapping
                                    THEN ServiceMapping[provider_code]
                                    ELSE "OpenAIService",
                            provider |-> provider,
                            api_key |-> table[provider].api_key])

get_service_typeFirst(table, company, provider_code, company_id) ==
    LET eff == IF company_id = 0 THEN company ELSE company_id
        provider == SearchProvider(table, provider_code, eff)
    IN  IF provider_code \notin DOMAIN ServiceMapping
        THEN ServiceResult("raise", "unsupported", NoAdapter)
        ELSE IF provider = 0
        THEN ServiceResult("raise", "not_found", NoAdapter)
        ELSE IF table[provider].api_key = ""
        THEN ServiceResult("raise", "no_credentials", NoAdapter)
        ELSE ServiceResult("adapter", "",
                           [cls |-> ServiceMapping[provider_code],
                            provider |-> provider,
                            api_key |-> table[provider].api_key])

\* get_service(provider_code, company_id); company_id 0 is None.
get_service(table, company, provider_code, company_id) ==
    LET eff == IF company_id = 0 THEN company ELSE company_id
        provider == SearchProvider(table, provider_code, eff)
    IN  IF provider = 0
        THEN ServiceResult("raise", "not_found", NoAdapter)
        ELSE IF table[provider].api_key = ""
        THEN ServiceResult("raise", "no_credentials", NoAdapter)
        ELSE IF provider_code \in DOMAIN ServiceMapping
        THEN ServiceResult("adapter", "",
                           [cls |-> ServiceMapping[provider_code],
                            provider |-> provider,
                            api_key |-> table[provider].api_key])
        ELSE ServiceResult("raise", "unsupported", NoAdapter)

NoSvc == [called |-> FALSE, code |-> "", company_id |-> 0,
          res |-> ServiceResult("", "", NoAdapter)]

SvcCall(table, company, provider_code, company_id) ==
    [called |-> TRUE, code |-> provider_code, company_id |-> company_id,
     res |-> get_service(table, company, provider_code, company_id)]

----------------------------------------------------------------------------
(* The orchestrator at rest *)

NumRecords == 2
Records == 1..NumRecords

NoFiles == [file_data |-> <<>>, chatter |-> <<>>]

\* An action with no AI model; the other fields have their defaults.
DefaultCfg ==
    [ai_model |-> FALSE, provider_id |-> 0, files_allowed |-> FALSE,
     images_allowed |-> FALSE, max_files |-> 0, prompt_template |-> FALSE,
     include_report |-> FALSE, include_all_attachments |-> FALSE,
     include_chatter |-> "none", output_destination |-> "chatter",
     output_field |-> "none", has_thread |-> TRUE]

OldValue == <<"old">>

\* The preview wizard before it is opened; object_ref 0 is no record and
\* preview_text <<>> is False.
NoWizard == [open |-> FALSE, server_action_id |-> FALSE, object_ref |-> 0,
             preview_text |-> <<>>, rendered |-> "none", changes |-> 0]

\* No record content drawn.
NoEnv == [report |-> "", store |-> <<>>, messages |-> <<>>]

OrchIdle ==
    /\ cfg = DefaultCfg
    /\ pc = "idle"
    /\ batch = <<>>
    /\ idx = 0
    /\ service = NoAdapter
    /\ prompt = <<>>
    /\ files = NoFiles
    /\ found = <<>>
    /\ response = <<>>
    /\ notified = <<>>
    /\ notes = [r \in Records |-> <<>>]
    /\ fieldval = [r \in Records |-> OldValue]
    /\ outcome = "none"
    /\ trace = <<>>
    /\ invocations = 0
    /\ env = NoEnv
    /\ wizard = NoWizard
    /\ img = NoImg

----------------------------------------------------------------------------
(* Specification of the factory: an administrator creates and edits        *)
(* providers, callers ask for a service.                                    *)

InitFactory ==
    /\ providers = <<>>
    /\ env_company \in Companies
    /\ svc = NoSvc
    /\ gen = NoGen
    /\ OrchIdle

CreateProvider ==
    /\ Len(providers) < MaxProviders
    /\ \E row \in AiProvider : providers' = Append(providers, row)
    /\ svc' = NoSvc
    /\ UNCHANGED <<env_company, gen, orchVars>>

\* write({field: value}) on one provider
WriteProvider ==
    /\ \E i \in 1..Len(providers) :
          \/ \E v \in Codes \ {providers[i].code} :
                providers' = [providers EXCEPT ![i].code = v]
          \/ \E v \in Companies \ {providers[i].company_id} :
                providers' = [providers EXCEPT ![i].company_id = v]
          \/ \E v \in ApiKeys \ {providers[i].api_key} :
                providers' = [providers EXCEPT ![i].api_key = v]
          \/ providers' = [providers EXCEPT ![i].active = ~providers[i].active]
    /\ svc' = NoSvc
    /\ UNCHANGED <<env_company, gen, orchVars>>

GetService ==
    /\ \E provider_code \in Codes, company_id \in {0} \cup Companies :
          svc' = SvcCall(providers, env_company, provider_code, company_id)
    /\ UNCHANGED <<providers, env_company, gen, orchVars>>

NextFactory == CreateProvider \/ WriteProvider \/ GetService

SpecFactory == InitFactory /\ [][NextFactory]_vars

----------------------------------------------------------------------------
(* Specification of the adapters: generate_text called on any request.     *)

Filenames == {"a.pdf"}
Mimetypes == {"application/pdf", "image/png"}

\* FileData is a TypedDict with total=False: filename and mimetype may be
\* absent.
FileData ==
    UNION {[{"data"} \cup ks -> Data \cup Filenames \cup Mimetypes] :
              ks \in SUBSET {"filename", "mimetype"}}

WellTypedFileData ==
    {fd \in FileData :
        /\ fd["data"] \in Data
        /\ ("filename" \in DOMAIN fd => fd["filename"] \in Filenames)
        /\ ("mimetype" \in DOMAIN fd => fd["mimetype"] \in Mimetypes)}

Prompts == {<<"p1">>, <<"p1", "p2">>}
Chatters == {<<>>, <<"c1">>}

\* AIFiles is a TypedDict with total=False, and files may be None.
AIFilesInputs ==
    {None, EmptyDict}
    \cup {[chatter |-> c] : c \in Chatters}
    \cup {[file_data |-> fds] : fds \in BoundedSeq(WellTypedFileData, MaxFiles)}
    \cup {[file_data |-> fds, chatter |-> c] :
             fds \in BoundedSeq(WellTypedFileData, MaxFiles), c \in Chatters}

\* A request waiting to be passed to generate_text.
Pending(p, fs, vendor) ==
    [called |-> FALSE, cls |-> "", prompt |-> p, files |-> fs,
     vendor |-> vendor, submitted |-> FALSE, sent |-> <<>>, ret |-> Return(<<>>)]

InitAdapter ==
    /\ providers = <<>>
    /\ env_company = 1
    /\ svc = NoSvc
    /\ \E p \in Prompts, fs \in AIFilesInputs, vendor \in VendorBehaviours :
          gen = Pending(p, fs, vendor)
    /\ OrchIdle

CallAdapter(cls) ==
    /\ ~gen.called
    /\ gen' = GenCall(cls, gen.prompt, gen.files, gen.vendor)
    /\ UNCHANGED <<factoryVars, orchVars>>

CallOpenAI == CallAdapter("OpenAIService")
CallAnthropic == CallAdapter("AnthropicService")
CallGoogleGemini == CallAdapter("GoogleGeminiService")
CallOpenRouter == CallAdapter("OpenRouterService")

NextAdapter == CallOpenAI \/ CallAnthropic \/ CallGoogleGemini \/ CallOpenRouter

SpecAdapter == InitAdapter /\ [][NextAdapter]_vars

----------------------------------------------------------------------------
(* tools/md_utils.py *)

\* parse_markdown: the rendered HTML of a markdown text
parse_markdown(text) == <<"<p>">> \o text \o <<"</p>">>

----------------------------------------------------------------------------
(* models/ir_actions_server.py: helpers of the generative_ai action *)

Notice(title, rec) == [title |-> title, rec |-> rec]

\* _prepare_ai_prompt: what rendering the template on a record yields
RenderOutcomes == {"ok", "empty", "raise"}

_prepare_ai_prompt_goesOn(c, rec, rendering) ==
    IF ~c.prompt_template
    THEN [prompt |-> <<>>, raised |-> FALSE, notices |-> <<>>]
    ELSE IF rendering = "raise"
    THEN [prompt |-> <<"prompt", rec>>, raised |-> TRUE,
          notices |-> <<Notice("AI Action Error", rec)>>]
    ELSE IF rendering = "empty"
    THEN [prompt |-> <<>>, raised |-> FALSE, notices |-> <<>>]
    ELSE [prompt |-> <<"prompt", rec>>, raised |-> FALSE, notices |-> <<>>]

\* _prepare_ai_prompt(record); raised: _render_template raised and the
\* except clause ran
_prepare_ai_prompt(c, rec, rendering) ==
    IF ~c.prompt_template
    THEN [prompt |-> <<>>, raised |-> FALSE, notices |-> <<>>]
    ELSE IF rendering = "raise"
    THEN [prompt |-> <<>>, raised |-> TRUE,
          notices |-> <<Notice("AI Action Error", rec)>>]
    ELSE IF rendering = "empty"
    THEN [prompt |-> <<>>, raised |-> FALSE, notices |-> <<>>]
    ELSE [prompt |-> <<"prompt", rec>>, raised |-> FALSE, notices |-> <<>>]

\* _render_qweb_pdf: a PDF, another format, or an exception
ReportOutcomes == {"pdf", "html", "raise"}

\* _prepare_report_file(record, result)
_prepare_report_file(c, rec, result, report) ==
    IF ~(c.include_report /\ c.files_allowed)
    THEN [file_data |-> result, notices |-> <<>>]
    ELSE IF report = "raise"
    THEN [file_data |-> result, notices |-> <<Notice("AI Report Error", rec)>>]
    ELSE IF report = "pdf"
    THEN [file_data |-> Append(result, [filename |-> "report.pdf", data |-> "s1"]),
          notices |-> <<>>]
    ELSE [file_data |-> result, notices |-> <<>>]

\* ir.attachment rows of a record; datas "unreadable" raises when read.
AttachmentMimetypes == {"application/pdf", "image/jpeg", "image/png", "text/plain"}
AttachmentDatas == {"b2", "unreadable"}
IrAttachment == [name : {"att"}, mimetype : AttachmentMimetypes,
                 datas : AttachmentDatas]

\* search([... ("mimetype", "in", [pdf, jpeg, png])]) keeps the stored order
RECURSIVE SearchAttachments(_)
SearchAttachments(store) ==
    IF store = <<>> THEN <<>>
    ELSE (IF Head(store).mimetype \in {"application/pdf", "image/jpeg", "image/png"}
          THEN <<Head(store)>> ELSE <<>>) \o SearchAttachments(Tail(store))

_add_attachment_to_result_anyImage(c, attachment, result) ==
    IF attachment.datas = "unreadable"
    THEN [ok |-> FALSE, file_data |-> result]
    ELSE IF attachment.mimetype = "application/pdf"
    THEN [ok |-> TRUE,
          file_data |-> Append(result, [filename |-> attachment.name,
                                        data |-> attachment.datas])]
    ELSE [ok |-> TRUE,
          file_data |-> Append(result, [filename |-> attachment.name,
                                        data |-> attachment.datas,
                                        mimetype |-> attachment.mimetype])]

\* _add_attachment_to_result(attachment, result)
_add_attachment_to_result(c, attachment, result) ==
    IF attachment.mimetype = "application/pdf"
    THEN IF attachment.datas = "unreadable"
         THEN [ok |-> FALSE, file_data |-> result]
         ELSE [ok |-> TRUE,
               file_data |-> Append(result, [filename |-> attachment.name,
                                             data |-> attachment.datas])]
    ELSE IF attachment.mimetype \in {"image/jpeg", "image/png"} /\ c.images_allowed
    THEN IF attachment.datas = "unreadable"
         THEN [ok |-> FALSE, file_data |-> result]
         ELSE [ok |-> TRUE,
               file_data |-> Append(result, [filename |-> attachment.name,
                                             data |-> attachment.datas,
                                             mimetype |-> attachment.mimetype])]
    ELSE [ok |-> TRUE, file_data |-> result]

RECURSIVE AttachmentLoop_countsAppended(_, _, _, _, _, _)
AttachmentLoop_countsAppended(c, rec, attachments, i, file_count, acc) ==
    IF i > Len(attachments) \/ file_count >= c.max_files THEN acc
    ELSE LET added == _add_attachment_to_result(c, attachments[i], acc.file_data)
         IN  IF added.ok
             THEN AttachmentLoop_countsAppended(
                      c, rec, attachments, i + 1, Len(added.file_data),
                      [acc EXCEPT !.file_data = added.file_data])
             ELSE AttachmentLoop_countsAppended(
                      c, rec, attachments, i + 1, file_count,
                      [acc EXCEPT !.notices =
                          Append(@, Notice("AI Attachment Error", rec))])

\* the loop of _prepare_attachment_files
RECURSIVE AttachmentLoop(_, _, _, _, _, _)
AttachmentLoop(c, rec, attachments, i, file_count, acc) ==
    IF i > Len(attachments) \/ file_count >= c.max_files THEN acc
    ELSE LET added == _add_attachment_to_result(c, attachments[i], acc.file_data)
         IN  IF added.ok
             THEN AttachmentLoop(c, rec, attachments, i + 1, file_count + 1,
                                 [acc EXCEPT !.file_data = added.file_data])
             ELSE AttachmentLoop(c, rec, attachments, i + 1, file_count,
                                 [acc EXCEPT !.notices =
                                     Append(@, Notice("AI Attachment Error", rec))])

\* _prepare_attachment_files(record, result)
_prepare_attachment_files(c, rec, result, store) ==
    IF ~(c.include_all_attachments /\ c.files_allowed)
    THEN [file_data |-> result, notices |-> <<>>]
    ELSE AttachmentLoop(c, rec, SearchAttachments(store), 1, Len(result),
                        [file_data |-> result, notices |-> <<>>])

\* mail.message rows of a record; author "" and email_from "" are unset,
\* date "" is a message without a date.
MessageTypes == {"email", "comment", "notification"}
MailMessage == [message_type : MessageTypes, author : {"", "Ann"},
                email_from : {"", "a@x"}, date : {"", "d1"}, body : {"<p>hi</p>"}]

_should_include_message_mailsKeepNotes(c, message) ==
    \/ c.include_chatter = "all"
    \/ c.include_chatter \in {"mails", "mails_notes"}
          /\ message.message_type \in {"email", "comment"}

\* _should_include_message(message)
_should_include_message(c, message) ==
    \/ c.include_chatter = "all"
    \/ c.include_chatter = "mails" /\ message.message_type = "email"
    \/ c.include_chatter = "mails_notes"
          /\ message.message_type \in {"email", "comment"}

\* _clean_message_body: html_to_inner_content(body)
_clean_message_body(body) == IF body = "<p>hi</p>" THEN "hi" ELSE body

RECURSIVE ChatterLoop(_, _, _, _)
ChatterLoop(c, messages, i, chatter_text) ==
    IF i > Len(messages) THEN [ok |-> TRUE, lines |-> chatter_text]
    ELSE LET message == messages[i]
             author == IF message.author # "" THEN message.author
                       ELSE IF message.email_from # "" THEN message.email_from
                       ELSE "System"
         IN  IF ~_should_include_message(c, message)
             THEN ChatterLoop(c, messages, i + 1, chatter_text)
             ELSE IF message.date = ""     \* False.strftime: AttributeError
             THEN [ok |-> FALSE, lines |-> chatter_text]
             ELSE ChatterLoop(c, messages, i + 1,
                      Append(chatter_text,
                             <<"[", message.date, "] ", author, ": ",
                               _clean_message_body(message.body)>>))

\* "\n\n".join(lines)
RECURSIVE Join(_)
Join(lines) ==
    IF lines = <<>> THEN <<>>
    ELSE IF Len(lines) = 1 THEN lines[1]
    ELSE lines[1] \o <<"\n\n">> \o Join(Tail(lines))

\* _prepare_chatter_content(record)
_prepare_chatter_content(c, messages) ==
    IF c.include_chatter = "none" \/ ~c.has_thread
    THEN [ok |-> TRUE, text |-> <<>>]
    ELSE LET loop == ChatterLoop(c, messages, 1, <<>>)
         IN  [ok |-> loop.ok, text |-> Join(loop.lines)]

\* _prepare_ai_files(record): report, then attachments, then chatter
_prepare_ai_files(c, rec, report, store, messages) ==
    LET r1 == _prepare_report_file(c, rec, <<>>, report)
        r2 == _prepare_attachment_files(c, rec, r1.file_data, store)
        ch == _prepare_chatter_content(c, messages)
    IN  [ok |-> ch.ok,
         files |-> [file_data |-> r2.file_data, chatter |-> ch.text],
         notices |-> r1.notices \o r2.notices]

----------------------------------------------------------------------------
(* _run_action_generative_ai, step by step *)

Step(name, rec) == [step |-> name, rec |-> rec]

\* What the records of the target model may hold when they are read.
RecordStores ==
    {<<>>,
     <<[name |-> "att", mimetype |-> "application/pdf", datas |-> "b2"]>>,
     <<[name |-> "att", mimetype |-> "image/png", datas |-> "unreadable"]>>}
RecordMessages ==
    {<<>>,
     <<[message_type |-> "email", author |-> "Ann", email_from |-> "a@x",
        date |-> "d1", body |-> "<p>hi</p>"]>>,
     <<[message_type |-> "notification", author |-> "", email_from |-> "",
        date |-> "", body |-> "<p>hi</p>"]>>}

\* active_ids of the triggering context: distinct records, in any order
ActiveIds ==
    {ids \in BoundedSeq(Records, NumRecords) :
        \A i, j \in 1..Len(ids) : i # j => ids[i] # ids[j]}

ClearLocals ==
    /\ prompt' = <<>>
    /\ files' = NoFiles
    /\ found' = <<>>
    /\ response' = <<>>
    /\ gen' = NoGen

NextRecord_stays ==
    /\ idx' = idx
    /\ pc' = "loop"
    /\ ClearLocals

\* `continue`: on to the next record of the loop
NextRecord ==
    /\ idx' = idx + 1
    /\ pc' = "loop"
    /\ ClearLocals

\* An exception leaves _run_action_generative_ai.
Propagate ==
    /\ outcome' = "raised"
    /\ pc' = "done"
    /\ ClearLocals
    /\ UNCHANGED idx

\* lines 66-71: ensure_one and the test on ai_model_id
Invoke_noModelTest ==
    /\ pc \in {"idle", "done"}
    /\ invocations < MaxInvocations
    /\ invocations' = invocations + 1
    /\ \E ids \in ActiveIds : batch' = ids
    /\ notified' = <<>>
    /\ trace' = <<>>
    /\ idx' = 0
    /\ service' = NoAdapter
    /\ svc' = NoSvc
    /\ ClearLocals
    /\ outcome' = "none" /\ pc' = "acquire"
    /\ UNCHANGED <<providers, env_company, cfg, env, img, wizard, notes, fieldval>>

Invoke ==
    /\ pc \in {"idle", "done"}
    /\ invocations < MaxInvocations
    /\ invocations' = invocations + 1
    /\ \E ids \in ActiveIds : batch' = ids
    /\ notified' = <<>>
    /\ trace' = <<>>
    /\ idx' = 0
    /\ service' = NoAdapter
    /\ svc' = NoSvc
    /\ ClearLocals
    /\ IF ~cfg.ai_model
       THEN outcome' = "False" /\ pc' = "done"
       ELSE outcome' = "none" /\ pc' = "acquire"
    /\ UNCHANGED <<providers, env_company, cfg, env, img, wizard, notes, fieldval>>

\* self.ai_model_id.provider_id.code; "" for an empty recordset
ModelProviderCode(c, table) ==
    IF c.provider_id \in 1..Len(table) THEN table[c.provider_id].code ELSE ""

\* lines 73-89: the service from the factory, then the records to browse
Acquire_silent ==
    /\ pc = "acquire"
    /\ LET call == SvcCall(providers, env_company,
                           ModelProviderCode(cfg, providers), env_company)
       IN  /\ svc' = call
           /\ trace' = Append(trace, Step("acquire", 0))
           /\ IF call.res.kind = "raise"
              THEN /\ outcome' = "False"
                   /\ pc' = "done"
                   /\ UNCHANGED <<service, idx, notified>>
              ELSE /\ service' = call.res.adapter
                   /\ idx' = 1
                   /\ pc' = "loop"
                   /\ UNCHANGED <<notified, outcome>>
    /\ UNCHANGED <<providers, env_company, gen, cfg, env, img, wizard, batch, prompt, files,
                   found, response, notes, fieldval, invocations>>

Acquire ==
    /\ pc = "acquire"
    /\ LET call == SvcCall(providers, env_company,
                           ModelProviderCode(cfg, providers), env_company)
       IN  /\ svc' = call
           /\ trace' = Append(trace, Step("acquire", 0))
           /\ IF call.res.kind = "raise"
              THEN /\ notified' = Append(notified, Notice("AI Service Error", 0))
                   /\ outcome' = "False"
                   /\ pc' = "done"
                   /\ UNCHANGED <<service, idx>>
              ELSE /\ service' = call.res.adapter
                   /\ idx' = 1
                   /\ pc' = "loop"
                   /\ UNCHANGED <<notified, outcome>>
    /\ UNCHANGED <<providers, env_company, gen, cfg, env, img, wizard, batch, prompt, files,
                   found, response, notes, fieldval, invocations>>

\* line 106: the loop is over
Finish ==
    /\ pc = "loop"
    /\ idx > Len(batch)
    /\ outcome' = "False"
    /\ pc' = "done"
    /\ UNCHANGED <<factoryVars, gen, cfg, env, img, wizard, batch, idx, service, prompt, files,
                   found, response, notified, notes, fieldval, trace, invocations>>

\* lines 91-96: the record exists and its prompt is rendered
Render ==
    /\ pc = "loop"
    /\ idx <= Len(batch)
    /\ \E exists \in BOOLEAN, rendering \in RenderOutcomes :
          IF ~exists
          THEN /\ NextRecord
               /\ UNCHANGED <<notified, trace>>
          ELSE LET r == _prepare_ai_prompt(cfg, batch[idx], rendering)
               IN  /\ trace' = trace \o <<Step("render", batch[idx])>>
                                \o (IF r.raised
                                    THEN <<Step("render_raised", batch[idx])>>
                                    ELSE <<>>)
                   /\ notified' = notified \o r.notices
                   /\ IF r.prompt = <<>>
                      THEN NextRecord
                      ELSE /\ prompt' = r.prompt
                           /\ pc' = "gather"
                           /\ UNCHANGED <<idx, files, found, response, gen>>
    /\ UNCHANGED <<factoryVars, cfg, env, img, wizard, batch, service, notes, fieldval, outcome,
                   invocations>>

\* lines 98-99: _prepare_ai_files
Gather ==
    /\ pc = "gather"
    /\ \E report \in ReportOutcomes, store \in RecordStores,
          messages \in RecordMessages :
          LET r == _prepare_ai_files(cfg, batch[idx], report, store, messages)
          IN  /\ trace' = Append(trace, Step("gather", batch[idx]))
              /\ notified' = notified \o r.notices
              /\ IF ~r.ok
                 THEN Propagate
                 ELSE /\ files' = r.files
                      /\ found' = SearchAttachments(store)
                      /\ pc' = "generate"
                      /\ UNCHANGED <<idx, prompt, response, gen, outcome>>
    /\ UNCHANGED <<factoryVars, cfg, env, img, wizard, batch, service, notes, fieldval, invocations>>

Generate_silent ==
    /\ pc = "generate"
    /\ \E vendor \in VendorBehaviours :
          LET g == GenCall(service.cls, prompt, files, vendor)
          IN  /\ trace' = trace \o <<Step("generate", batch[idx])>>
                           \o (IF g.ret.kind = "raise"
                               THEN <<Step("generate_raised", batch[idx])>>
                               ELSE IF g.ret.text = <<>>
                               THEN <<Step("generate_empty", batch[idx])>>
                               ELSE <<>>)
              /\ IF g.ret.kind = "raise"
                 THEN /\ NextRecord
                      /\ UNCHANGED notified
                 ELSE IF g.ret.text = <<>>
                 THEN /\ NextRecord
                      /\ UNCHANGED notified
                 ELSE /\ gen' = g
                      /\ response' = g.ret.text
                      /\ pc' = "route"
                      /\ UNCHANGED <<idx, prompt, files, found, notified>>
    /\ UNCHANGED <<factoryVars, cfg, env, img, wizard, batch, service, notes, fieldval, outcome,
                   invocations>>

Generate_routesAfterRaise ==
    /\ pc = "generate"
    /\ \E vendor \in VendorBehaviours :
          LET g == GenCall(service.cls, prompt, files, vendor)
          IN  /\ trace' = trace \o <<Step("generate", batch[idx])>>
                           \o (IF g.ret.kind = "raise"
                               THEN <<Step("generate_raised", batch[idx])>>
                               ELSE IF g.ret.text = <<>>
                               THEN <<Step("generate_empty", batch[idx])>>
                               ELSE <<>>)
              /\ IF g.ret.kind = "raise"
                 THEN /\ notified' = Append(notified,
                                            Notice("AI Generation Error", batch[idx]))
                      /\ gen' = g
                      /\ response' = g.ret.msg
                      /\ pc' = "route"
                      /\ UNCHANGED <<idx, prompt, files, found>>
                 ELSE IF g.ret.text = <<>>
                 THEN /\ NextRecord
                      /\ UNCHANGED notified
                 ELSE /\ gen' = g
                      /\ response' = g.ret.text
                      /\ pc' = "route"
                      /\ UNCHANGED <<idx, prompt, files, found, notified>>
    /\ UNCHANGED <<factoryVars, cfg, env, img, wizard, batch, service, notes, fieldval, outcome,
                   invocations>>

Generate_noisyEmpty ==
    /\ pc = "generate"
    /\ \E vendor \in VendorBehaviours :
          LET g == GenCall(service.cls, prompt, files, vendor)
          IN  /\ trace' = trace \o <<Step("generate", batch[idx])>>
                           \o (IF g.ret.kind = "raise"
                               THEN <<Step("generate_raised", batch[idx])>>
                               ELSE IF g.ret.text = <<>>
                               THEN <<Step("generate_empty", batch[idx])>>
                               ELSE <<>>)
              /\ IF g.ret.kind = "raise"
                 THEN /\ notified' = Append(notified,
                                            Notice("AI Generation Error", batch[idx]))
                      /\ NextRecord
                 ELSE IF g.ret.text = <<>>
                 THEN /\ NextRecord
                      /\ notified' = Append(notified,
                                            Notice("AI Generation Error", batch[idx]))
                 ELSE /\ gen' = g
                      /\ response' = g.ret.text
                      /\ pc' = "route"
                      /\ UNCHANGED <<idx, prompt, files, found, notified>>
    /\ UNCHANGED <<factoryVars, cfg, env, img, wizard, batch, service, notes, fieldval, outcome,
                   invocations>>

\* lines 101-102 and _generate_ai_response
Generate ==
    /\ pc = "generate"
    /\ \E vendor \in VendorBehaviours :
          LET g == GenCall(service.cls, prompt, files, vendor)
          IN  /\ trace' = trace \o <<Step("generate", batch[idx])>>
                           \o (IF g.ret.kind = "raise"
                               THEN <<Step("generate_raised", batch[idx])>>
                               ELSE IF g.ret.text = <<>>
                               THEN <<Step("generate_empty", batch[idx])>>
                               ELSE <<>>)
              /\ IF g.ret.kind = "raise"
                 THEN /\ notified' = Append(notified,
                                            Notice("AI Generation Error", batch[idx]))
                      /\ NextRecord
                 ELSE IF g.ret.text = <<>>
                 THEN /\ NextRecord
                      /\ UNCHANGED notified
                 ELSE /\ gen' = g
                      /\ response' = g.ret.text
                      /\ pc' = "route"
                      /\ UNCHANGED <<idx, prompt, files, found, notified>>
    /\ UNCHANGED <<factoryVars, cfg, env, img, wizard, batch, service, notes, fieldval, outcome,
                   invocations>>

\* _process_ai_response returned ok to the loop, which discards it and goes
\* on: the trace keeps a "route_false" step when it returned False.
Returned(ok) ==
    /\ trace' = trace \o <<Step("route", batch[idx])>>
                      \o (IF ok THEN <<>> ELSE <<Step("route_false", batch[idx])>>)
    /\ NextRecord

Route_noModelTest ==
    /\ pc = "route"
    /\ \E post_ok \in BOOLEAN, write_ok \in BOOLEAN :
          IF cfg.output_destination = "chatter"
          THEN IF cfg.has_thread /\ post_ok
               THEN /\ notes' = [notes EXCEPT ![batch[idx]] =
                                    Append(@, parse_markdown(response))]
                    /\ Returned(TRUE)
                    /\ UNCHANGED <<fieldval, notified, outcome>>
               ELSE /\ Propagate
                    /\ trace' = Append(trace, Step("route", batch[idx]))
                    /\ UNCHANGED <<notes, fieldval, notified>>
          ELSE IF cfg.output_destination = "field" /\ cfg.output_field # "none"
          THEN IF write_ok
               THEN /\ fieldval' = [fieldval EXCEPT ![batch[idx]] =
                                       IF cfg.output_field = "html"
                                       THEN parse_markdown(response)
                                       ELSE response]
                    /\ Returned(TRUE)
                    /\ UNCHANGED <<notes, notified, outcome>>
               ELSE /\ notified' = Append(notified,
                                          Notice("AI Output Error", batch[idx]))
                    /\ Returned(FALSE)
                    /\ UNCHANGED <<notes, fieldval, outcome>>
          ELSE /\ Returned(TRUE)
               /\ UNCHANGED <<notes, fieldval, notified, outcome>>
    /\ UNCHANGED <<factoryVars, cfg, env, img, wizard, batch, service, invocations>>

Route_dedup ==
    /\ pc = "route"
    /\ \E post_ok \in BOOLEAN, write_ok \in BOOLEAN :
          IF cfg.output_destination = "chatter"
          THEN IF cfg.has_thread /\ post_ok
               THEN /\ notes' = [notes EXCEPT ![batch[idx]] =
                                    IF \E k \in 1..Len(@) :
                                          @[k] = parse_markdown(response)
                                    THEN @
                                    ELSE Append(@, parse_markdown(response))]
                    /\ Returned(TRUE)
                    /\ UNCHANGED <<fieldval, notified, outcome>>
               ELSE /\ Propagate
                    /\ trace' = Append(trace, Step("route", batch[idx]))
                    /\ UNCHANGED <<notes, fieldval, notified>>
          ELSE IF cfg.output_destination = "field" /\ cfg.output_field # "none"
          THEN IF cfg.output_field = "other"
               THEN /\ notified' = Append(notified,
                                          Notice("AI Output Error", batch[idx]))
                    /\ Returned(FALSE)
                    /\ UNCHANGED <<notes, fieldval, outcome>>
               ELSE IF write_ok
               THEN /\ fieldval' = [fieldval EXCEPT ![batch[idx]] =
                                       IF cfg.output_field = "html"
                                       THEN parse_markdown(response)
                                       ELSE response]
                    /\ Returned(TRUE)
                    /\ UNCHANGED <<notes, notified, outcome>>
               ELSE /\ notified' = Append(notified,
                                          Notice("AI Output Error", batch[idx]))
                    /\ Returned(FALSE)
                    /\ UNCHANGED <<notes, fieldval, outcome>>
          ELSE /\ Returned(TRUE)
               /\ UNCHANGED <<notes, fieldval, notified, outcome>>
    /\ UNCHANGED <<factoryVars, cfg, env, img, wizard, batch, service, invocations>>

Route_rawAlways ==
    /\ pc = "route"
    /\ \E post_ok \in BOOLEAN, write_ok \in BOOLEAN :
          IF cfg.output_destination = "chatter"
          THEN IF cfg.has_thread /\ post_ok
               THEN /\ notes' = [notes EXCEPT ![batch[idx]] =
                                    Append(@, parse_markdown(response))]
                    /\ Returned(TRUE)
                    /\ UNCHANGED <<fieldval, notified, outcome>>
               ELSE /\ Propagate
                    /\ trace' = Append(trace, Step("route", batch[idx]))
                    /\ UNCHANGED <<notes, fieldval, notified>>
          ELSE IF cfg.output_destination = "field" /\ cfg.output_field # "none"
          THEN IF cfg.output_field = "other"
               THEN /\ notified' = Append(notified,
                                          Notice("AI Output Error", batch[idx]))
                    /\ Returned(FALSE)
                    /\ UNCHANGED <<notes, fieldval, outcome>>
               ELSE IF write_ok
               THEN /\ fieldval' = [fieldval EXCEPT ![batch[idx]] =
                                       response]
                    /\ Returned(TRUE)
                    /\ UNCHANGED <<notes, notified, outcome>>
               ELSE /\ notified' = Append(notified,
                                          Notice("AI Output Error", batch[idx]))
                    /\ Returned(FALSE)
                    /\ UNCHANGED <<notes, fieldval, outcome>>
          ELSE /\ Returned(TRUE)
               /\ UNCHANGED <<notes, fieldval, notified, outcome>>
    /\ UNCHANGED <<factoryVars, cfg, env, img, wizard, batch, service, invocations>>

Route_noisyNoField ==
    /\ pc = "route"
    /\ \E post_ok \in BOOLEAN, write_ok \in BOOLEAN :
          IF cfg.output_destination = "chatter"
          THEN IF cfg.has_thread /\ post_ok
               THEN /\ notes' = [notes EXCEPT ![batch[idx]] =
                                    Append(@, parse_markdown(response))]
                    /\ Returned(TRUE)
                    /\ UNCHANGED <<fieldval, notified, outcome>>
               ELSE /\ Propagate
                    /\ trace' = Append(trace, Step("route", batch[idx]))
                    /\ UNCHANGED <<notes, fieldval, notified>>
          ELSE IF cfg.output_destination = "field" /\ cfg.output_field # "none"
          THEN IF cfg.output_field = "other"
               THEN /\ notified' = Append(notified,
                                          Notice("AI Output Error", batch[idx]))
                    /\ Returned(FALSE)
                    /\ UNCHANGED <<notes, fieldval, outcome>>
               ELSE IF write_ok
               THEN /\ fieldval' = [fieldval EXCEPT ![batch[idx]] =
                                       IF cfg.output_field = "html"
                                       THEN parse_markdown(response)
                                       ELSE response]
                    /\ Returned(TRUE)
                    /\ UNCHANGED <<notes, notified, outcome>>
               ELSE /\ notified' = Append(notified,
                                          Notice("AI Output Error", batch[idx]))
                    /\ Returned(FALSE)
                    /\ UNCHANGED <<notes, fieldval, outcome>>
          ELSE /\ notified' = Append(notified,
                                     Notice("AI Output Error", batch[idx]))
               /\ Returned(TRUE)
               /\ UNCHANGED <<notes, fieldval, outcome>>
    /\ UNCHANGED <<factoryVars, cfg, env, img, wizard, batch, service, invocations>>

\* line 104 and _process_ai_response
Route ==
    /\ pc = "route"
    /\ \E post_ok \in BOOLEAN, write_ok \in BOOLEAN :
          IF cfg.output_destination = "chatter"
          THEN IF cfg.has_thread /\ post_ok
               THEN /\ notes' = [notes EXCEPT ![batch[idx]] =
                                    Append(@, parse_markdown(response))]
                    /\ Returned(TRUE)
                    /\ UNCHANGED <<fieldval, notified, outcome>>
               ELSE /\ Propagate
                    /\ trace' = Append(trace, Step("route", batch[idx]))
                    /\ UNCHANGED <<notes, fieldval, notified>>
          ELSE IF cfg.output_destination = "field" /\ cfg.output_field # "none"
          THEN IF cfg.output_field = "other"
               THEN /\ notified' = Append(notified,
                                          Notice("AI Output Error", batch[idx]))
                    /\ Returned(FALSE)
                    /\ UNCHANGED <<notes, fieldval, outcome>>
               ELSE IF write_ok
               THEN /\ fieldval' = [fieldval EXCEPT ![batch[idx]] =
                                       IF cfg.output_field = "html"
                                       THEN parse_markdown(response)
                                       ELSE response]
                    /\ Returned(TRUE)
                    /\ UNCHANGED <<notes, notified, outcome>>
               ELSE /\ notified' = Append(notified,
                                          Notice("AI Output Error", batch[idx]))
                    /\ Returned(FALSE)
                    /\ UNCHANGED <<notes, fieldval, outcome>>
          ELSE /\ Returned(TRUE)
               /\ UNCHANGED <<notes, fieldval, notified, outcome>>
    /\ UNCHANGED <<factoryVars, cfg, env, img, wizard, batch, service, invocations>>

\* The file-related settings of the action and of its AI model: a model
\* that takes no file, and one that takes files and images.
FileConfigs ==
    {[files_allowed |-> FALSE, images_allowed |-> FALSE, max_files |-> 0,
      include_report |-> TRUE, include_all_attachments |-> TRUE],
     [files_allowed |-> TRUE, images_allowed |-> TRUE, max_files |-> MaxFilesLimit,
      include_report |-> TRUE, include_all_attachments |-> TRUE]}

\* Where the generated text goes: output_field is read only for "field".
OutputConfigs ==
    {[output_destination |-> "chatter", output_field |-> "none"]}
    \cup {[output_destination |-> "field", output_field |-> f] :
             f \in {"none", "text", "html", "other"}}

\* The configurations of the action that the invocations run with.
Configs ==
    {DefaultCfg} \cup
    {[ai_model |-> TRUE, provider_id |-> 1,
      files_allowed |-> fc.files_allowed, images_allowed |-> fc.images_allowed,
      max_files |-> fc.max_files, prompt_template |-> pt,
      include_report |-> fc.include_report,
      include_all_attachments |-> fc.include_all_attachments,
      include_chatter |-> ic,
      output_destination |-> oc.output_destination,
      output_field |-> oc.output_field, has_thread |-> ht] :
        fc \in FileConfigs, oc \in OutputConfigs, pt \in BOOLEAN,
        ic \in {"none", "all"}, ht \in BOOLEAN}

\* The provider of the action's AI model, as the administrator left it.
ModelProviders == {row \in AiProvider : row.api_key # "k2"}

Init ==
    /\ \E row \in ModelProviders : providers = <<row>>
    /\ env_company = 1
    /\ svc = NoSvc
    /\ gen = NoGen
    /\ cfg \in Configs
    /\ pc = "idle"
    /\ batch = <<>>
    /\ idx = 0
    /\ service = NoAdapter
    /\ prompt = <<>>
    /\ files = NoFiles
    /\ found = <<>>
    /\ response = <<>>
    /\ notified = <<>>
    /\ notes = [r \in Records |-> <<>>]
    /\ fieldval = [r \in Records |-> OldValue]
    /\ outcome = "none"
    /\ trace = <<>>
    /\ invocations = 0
    /\ env = NoEnv
    /\ wizard = NoWizard
    /\ img = NoImg

Next == Invoke \/ Acquire \/ Render \/ Gather \/ Generate \/ Route \/ Finish

Spec == Init /\ [][Next]_vars

----------------------------------------------------------------------------
(* Specifications of _prepare_ai_files on one record: the content of the    *)
(* record is drawn first, then the helper is applied to it once.            *)

MaxAttachments == 3
MaxMessages == 2

\* The action and its AI model, for every file-related setting.
GatherConfigs ==
    {[DefaultCfg EXCEPT !.ai_model = TRUE, !.provider_id = 1,
                        !.files_allowed = fa, !.images_allowed = ia,
                        !.max_files = mf, !.include_report = ir,
                        !.include_all_attachments = aa] :
        fa \in BOOLEAN, ia \in BOOLEAN, mf \in 0..MaxFilesLimit,
        ir \in BOOLEAN, aa \in BOOLEAN}

\* The action for every chatter mode, on a record with or without a thread.
ChatterConfigs ==
    {[DefaultCfg EXCEPT !.ai_model = TRUE, !.provider_id = 1,
                        !.include_chatter = ic, !.has_thread = ht] :
        ic \in {"none", "mails", "mails_notes", "all"}, ht \in BOOLEAN}

\* The state in which _prepare_ai_files is entered for record 1.
AtGather ==
    /\ providers = <<>>
    /\ env_company = 1
    /\ svc = NoSvc
    /\ gen = NoGen
    /\ pc = "gather"
    /\ batch = <<1>>
    /\ idx = 1
    /\ service = NoAdapter
    /\ prompt = <<>>
    /\ files = NoFiles
    /\ found = <<>>
    /\ response = <<>>
    /\ notified = <<>>
    /\ notes = [r \in Records |-> <<>>]
    /\ fieldval = [r \in Records |-> OldValue]
    /\ outcome = "none"
    /\ trace = <<>>
    /\ invocations = 1
    /\ wizard = NoWizard
    /\ img = NoImg

InitGather ==
    /\ AtGather
    /\ cfg \in GatherConfigs
    /\ \E report \in ReportOutcomes, store \in BoundedSeq(IrAttachment, MaxAttachments) :
          env = [report |-> report, store |-> store, messages |-> <<>>]

InitChatter ==
    /\ AtGather
    /\ cfg \in ChatterConfigs
    /\ \E messages \in BoundedSeq(MailMessage, MaxMessages) :
          /\ ~cfg.has_thread => messages = <<>>
          /\ env = [report |-> "html", store |-> <<>>, messages |-> messages]

\* _prepare_ai_files(record) on the drawn record
PrepareAiFiles ==
    /\ pc = "gather"
    /\ env # NoEnv
    /\ LET r == _prepare_ai_files(cfg, batch[idx], env.report, env.store,
                                  env.messages)
       IN  /\ trace' = Append(trace, Step("gather", batch[idx]))
           /\ notified' = notified \o r.notices
           /\ IF ~r.ok
              THEN Propagate
              ELSE /\ files' = r.files
                   /\ found' = SearchAttachments(env.store)
                   /\ pc' = "generate"
                   /\ UNCHANGED <<idx, prompt, response, gen, outcome>>
    /\ UNCHANGED <<factoryVars, cfg, env, img, wizard, batch, service, notes, fieldval, invocations>>

NextGather == PrepareAiFiles

SpecGather == InitGather /\ [][NextGather]_vars

NextChatter == PrepareAiFiles

SpecChatter == InitChatter /\ [][NextChatter]_vars

----------------------------------------------------------------------------
(* Specification of the preview wizard: the operator opens it on the action *)
(* and changes the sample record.                                           *)

MaxChanges == 2

\* _("Error generating preview. Check the template for errors.")
PreviewPlaceholder == <<"Error generating preview. Check the template for errors.">>

_onchange_object_ref_noPlaceholder(c, w, rendering) ==
    IF w.object_ref # 0 /\ w.server_action_id
    THEN LET preview == _prepare_ai_prompt(c, w.object_ref, rendering)
         IN  [preview_text |-> preview.prompt, notices |-> preview.notices]
    ELSE [preview_text |-> <<>>, notices |-> <<>>]

\* _onchange_object_ref on the wizard w of the action c
_onchange_object_ref(c, w, rendering) ==
    IF w.object_ref # 0 /\ w.server_action_id
    THEN LET preview == _prepare_ai_prompt(c, w.object_ref, rendering)
         IN  [preview_text |-> IF preview.prompt # <<>> THEN preview.prompt
                               ELSE PreviewPlaceholder,
              notices |-> preview.notices]
    ELSE [preview_text |-> <<>>, notices |-> <<>>]

\* action_preview_prompt, then the wizard's defaults: server_action_id from
\* the context, object_ref the first record of the model or none
ActionPreviewPrompt ==
    /\ ~wizard.open
    /\ \E sa \in BOOLEAN, ref \in {0, 1} :
          wizard' = [NoWizard EXCEPT !.open = TRUE, !.server_action_id = sa,
                                     !.object_ref = ref]
    /\ UNCHANGED <<factoryVars, gen, cfg, env, img, batch, idx, service, prompt, files,
                   found, response, notified, notes, fieldval, outcome, trace,
                   invocations, pc>>

\* The operator picks a sample record (or none) and the onchange runs;
\* rendered: what rendering the template did, "none" when it was not tried.
OnchangeObjectRef ==
    /\ wizard.open
    /\ wizard.changes < MaxChanges
    /\ \E ref \in 0..NumRecords, rendering \in RenderOutcomes :
          LET w == [wizard EXCEPT !.object_ref = ref]
              r == _onchange_object_ref(cfg, w, rendering)
          IN  /\ wizard' = [w EXCEPT !.preview_text = r.preview_text,
                                     !.rendered =
                                        IF ref = 0 \/ ~w.server_action_id
                                        THEN "none"
                                        ELSE IF ~cfg.prompt_template THEN "empty"
                                        ELSE rendering,
                                     !.changes = @ + 1]
              /\ notified' = notified \o r.notices
    /\ UNCHANGED <<factoryVars, gen, cfg, env, img, batch, idx, service, prompt, files,
                   found, response, notes, fieldval, outcome, trace, invocations,
                   pc>>

NextPreview == ActionPreviewPrompt \/ OnchangeObjectRef

SpecPreview == Init /\ [][NextPreview]_vars

----------------------------------------------------------------------------
(* Specification of is_image_mimetype as a function of its argument: the    *)
(* allow-list, its entries in other cases, bare, padded or with a           *)
(* parameter, wildcards, near misses and other types.                       *)

MimetypeInputs ==
    {"image/png", "IMAGE/PNG", "Image/Png", "image/PNG", "png", " image/png",
     "image/png;q=1", "image/jpeg", "IMAGE/JPEG", "Image/Jpeg", "image/JPEG",
     "jpeg", " image/jpeg", "image/jpeg;q=1", "image/jpg", "IMAGE/JPG",
     "Image/Jpg", "image/JPG", "jpg", " image/jpg", "image/jpg;q=1",
     "image/gif", "IMAGE/GIF", "Image/Gif", "image/GIF", "gif", " image/gif",
     "image/gif;q=1", "image/webp", "IMAGE/WEBP", "Image/Webp", "image/WEBP",
     "webp", " image/webp", "image/webp;q=1", "image/bmp", "IMAGE/BMP",
     "Image/Bmp", "image/BMP", "bmp", " image/bmp", "image/bmp;q=1",
     "image/svg+xml", "IMAGE/SVG+XML", "Image/Svg+xml", "image/SVG+XML",
     "svg+xml", " image/svg+xml", "image/svg+xml;q=1", "image/tiff",
     "IMAGE/TIFF", "Image/Tiff", "image/TIFF", "tiff", " image/tiff",
     "image/tiff;q=1", "", "image", "image/", "image/*", "*/*",
     "image/x-icon", "image/heic", "image/avif", "image/svg",
     "image/svg xml", "image/tif", "image/jpe", "application/pdf",
     "text/plain", "video/png", "application/png", "images/png"}

InitImage ==
    /\ cfg = DefaultCfg
    /\ pc = "idle"
    /\ batch = <<>>
    /\ idx = 0
    /\ service = NoAdapter
    /\ prompt = <<>>
    /\ files = NoFiles
    /\ found = <<>>
    /\ response = <<>>
    /\ notified = <<>>
    /\ notes = [r \in Records |-> <<>>]
    /\ fieldval = [r \in Records |-> OldValue]
    /\ outcome = "none"
    /\ trace = <<>>
    /\ invocations = 0
    /\ env = NoEnv
    /\ wizard = NoWizard
    /\ providers = <<>>
    /\ env_company = 1
    /\ svc = NoSvc
    /\ gen = NoGen
    /\ \E m \in MimetypeInputs : img = [NoImg EXCEPT !.mimetype = m]

IsImageMimetype ==
    /\ ~img.called
    /\ img' = [img EXCEPT !.called = TRUE,
                          !.result = is_image_mimetype(img.mimetype)]
    /\ UNCHANGED <<factoryVars, gen, cfg, pc, batch, idx, service, prompt, files,
                   found, response, notified, notes, fieldval, outcome, trace,
                   invocations, env, wizard>>

NextImage == IsImageMimetype

SpecImage == InitImage /\ [][NextImage]_vars

----------------------------------------------------------------------------
(* Claims on the orchestrator (specification Spec) *)

Acquired == service # NoAdapter

\* C1: once the adapter has been acquired, a failure on one record never
\* aborts the batch: when the invocation has ended, no record after the one
\* last worked on was left unprocessed.
C1_BatchNeverAborted ==
    (pc = "done" /\ Acquired) => idx >= Len(batch)

\* C2: no failure of any step propagates an exception out of
\* _run_action_generative_ai.
C2_NoExceptionPropagates == outcome # "raised"

\* C3: whenever an invocation has ended, what it reported to its caller is
\* False.
C3_AlwaysReportsFalse == pc = "done" => outcome = "False"

\* C4: when acquiring the adapter fails, a notification is raised and the
\* invocation stops: the only step taken is the acquisition, no prompt is
\* rendered, generate_text is not called and nothing is routed to a record.
C4_AcquireFailureStops ==
    (svc.called /\ svc.res.kind = "raise") =>
        /\ pc = "done"
        /\ outcome = "False"
        /\ notified = <<Notice("AI Service Error", 0)>>
        /\ trace = <<Step("acquire", 0)>>
        /\ ~gen.called
        /\ ~Acquired

C4_Witness ==
    /\ svc.called
    /\ svc.res.kind = "raise"
    /\ pc = "done"
    /\ Len(batch) = NumRecords

\* C5: with no AI model configured an invocation is a silent no-op: it has
\* ended at once with False, the factory was not called, nothing was
\* notified, no step was taken on any record and no record was written.
C5_NoModelIsNoOp ==
    (~cfg.ai_model /\ invocations > 0) =>
        /\ pc = "done"
        /\ outcome = "False"
        /\ ~svc.called
        /\ notified = <<>>
        /\ trace = <<>>
        /\ ~gen.called
        /\ notes = [r \in Records |-> <<>>]
        /\ fieldval = [r \in Records |-> OldValue]

C5_Witness ==
    /\ ~cfg.ai_model
    /\ invocations > 0
    /\ Len(batch) = NumRecords

----------------------------------------------------------------------------
(* Claims on the adapters (specification SpecAdapter) *)

IsTextElement(e) == "text" \in DOMAIN e

\* The declared content type carried by a file element of a request.
ElementMime(e) ==
    IF "inline_data" \in DOMAIN e THEN e.inline_data.mime_type
    ELSE IF "source" \in DOMAIN e THEN e.source.media_type
    ELSE IF "image_url" \in DOMAIN e THEN e.image_url[2]
    ELSE e.file_data[2]

\* The payload (1 or 2) carried by a file element of a request.
ElementPayload(e) ==
    LET d == IF "inline_data" \in DOMAIN e THEN e.inline_data.data
             ELSE IF "source" \in DOMAIN e THEN e.source.data
             ELSE IF "image_url" \in DOMAIN e THEN e.image_url[4]
             ELSE e.file_data[4]
    IN  IF d \in {"s1", "raw1"} THEN 1 ELSE IF d \in {"s2", "raw2"} THEN 2 ELSE 0

DataPayload(d) == IF d = "s1" THEN 1 ELSE IF d = "b2" THEN 2 ELSE 0

\* Positions of the input files an adapter retains: Gemini skips the files
\* it cannot decode, the other adapters keep every file.
Retained(g) ==
    LET fds == Get(OrEmptyDict(g.files), "file_data", <<>>)
    IN  IF g.cls = "GoogleGeminiService"
        THEN {i \in 1..Len(fds) : DataPayload(fds[i]["data"]) # 0}
        ELSE 1..Len(fds)

\* C6: the content submitted to the vendor is the retained file entries in
\* their input order followed by exactly one text element, which is last.
C6_FilesThenText ==
    (gen.called /\ gen.submitted) =>
        LET fds == Get(OrEmptyDict(gen.files), "file_data", <<>>)
            kept == Retained(gen)
            n == Cardinality(kept)
        IN  /\ Len(gen.sent) = n + 1
            /\ IsTextElement(gen.sent[n + 1])
            /\ \A i \in kept :
                  LET k == Cardinality({j \in kept : j <= i})
                  IN  /\ ~IsTextElement(gen.sent[k])
                      /\ ElementMime(gen.sent[k]) =
                            Get(fds[i], "mimetype", "application/pdf")
                      /\ ElementPayload(gen.sent[k]) = DataPayload(fds[i]["data"])

C6_Witness ==
    /\ gen.called
    /\ gen.submitted
    /\ Len(gen.sent) = 3
    /\ gen.sent[1] # gen.sent[2]

HasUndecodableFile(g) ==
    \E i \in 1..Len(Get(OrEmptyDict(g.files), "file_data", <<>>)) :
        Get(OrEmptyDict(g.files), "file_data", <<>>)[i]["data"] = "bx"

\* C7: in every adapter a file entry that cannot be processed is skipped:
\* the request is still submitted and generate_text does not raise because
\* of that file.
C7_BadFileOnlySkipped ==
    (gen.called /\ HasUndecodableFile(gen)) =>
        /\ gen.submitted
        /\ (gen.ret.kind = "raise" => gen.vendor \in {"error", "nocontent"})

ProviderPrefix(cls) ==
    CASE cls = "OpenAIService"       -> "Error calling OpenAI API\n"
      [] cls = "AnthropicService"    -> "Error calling Anthropic API\n"
      [] cls = "GoogleGeminiService" -> "Error calling Google Gemini API\n"
      [] cls = "OpenRouterService"   -> "Error calling OpenRouter API\n"

\* C8: every exception that leaves generate_text is a UserError whose
\* message starts with the provider's prefix.
C8_OnlyUserErrorsLeave ==
    (gen.called /\ gen.ret.kind = "raise") =>
        /\ gen.ret.exc = "UserError"
        /\ gen.ret.msg[1] = ProviderPrefix(gen.cls)

\* C9: the text element sent is the prompt unchanged when the chat history
\* is absent or empty, and otherwise the prompt followed by the CHATTER
\* HISTORY header and the chat history; the header is there iff the chat
\* history is non-empty.
C9_ChatterSection ==
    (gen.called /\ gen.submitted) =>
        LET text == Last(gen.sent).text
            chatter == IF gen.files # None /\ "chatter" \in DOMAIN gen.files
                       THEN gen.files["chatter"] ELSE <<>>
            hasHeader == \E i \in 1..Len(text) : text[i] = "\n\nCHATTER HISTORY:\n"
        IN  /\ chatter = <<>> => text = gen.prompt
            /\ chatter # <<>> =>
                  text = gen.prompt \o <<"\n\nCHATTER HISTORY:\n">> \o chatter
            /\ hasHeader <=> chatter # <<>>

C9_Witness ==
    /\ gen.called
    /\ gen.submitted
    /\ "chatter" \in DOMAIN gen.files
    /\ gen.files["chatter"] # <<>>
    /\ Len(Last(gen.sent).text) > Len(gen.prompt)

----------------------------------------------------------------------------
(* Claims on the factory (specification SpecFactory) *)

\* The company get_service looks in: the given one, or the user's.
EffectiveCompany ==
    IF svc.company_id = 0 THEN env_company ELSE svc.company_id

\* C10: get_service fails with the not-found error and constructs no adapter
\* whenever no provider has the code, is active and belongs to the company.
C10_NotFound ==
    (/\ svc.called
     /\ ~\E i \in 1..Len(providers) :
            /\ providers[i].code = svc.code
            /\ providers[i].active
            /\ providers[i].company_id = EffectiveCompany)
    => /\ svc.res.kind = "raise"
       /\ svc.res.err = "not_found"
       /\ svc.res.adapter = NoAdapter

C10_Witness ==
    /\ svc.called
    /\ svc.res.err = "not_found"
    /\ \E i \in 1..Len(providers) :
          /\ providers[i].code = svc.code
          /\ providers[i].api_key # ""
          /\ ~providers[i].active
    /\ \E i \in 1..Len(providers) :
          /\ providers[i].code = svc.code
          /\ providers[i].active
          /\ providers[i].company_id # EffectiveCompany

\* The provider get_service works with: the lowest id among the active
\* providers of the code and the company, 0 when there is none.
MatchedProvider ==
    LET ids == {i \in 1..Len(providers) :
                   /\ providers[i].code = svc.code
                   /\ providers[i].active
                   /\ providers[i].company_id = EffectiveCompany}
    IN  IF ids = {} THEN 0 ELSE CHOOSE i \in ids : \A j \in ids : i <= j

RegisteredCodes == {"google", "openai", "anthropic", "openrouter"}

\* C11: get_service fails with the missing-credential error and constructs
\* no adapter whenever the matched active provider has no api_key.
C11_MissingCredential ==
    (/\ svc.called
     /\ MatchedProvider # 0
     /\ providers[MatchedProvider].api_key = "")
    => /\ svc.res.kind = "raise"
       /\ svc.res.err = "no_credentials"
       /\ svc.res.adapter = NoAdapter

C11_Witness ==
    /\ svc.called
    /\ svc.res.err = "no_credentials"
    /\ svc.code \in RegisteredCodes
    /\ \E i \in 1..Len(providers) :
          /\ i # MatchedProvider
          /\ providers[i].code = svc.code
          /\ providers[i].api_key # ""

\* C12 as stated: get_service fails with the unsupported-provider error for
\* every code that has an active provider row but no registered adapter type.
C12_UnsupportedWheneverActiveRow ==
    (/\ svc.called
     /\ svc.code \notin RegisteredCodes
     /\ MatchedProvider # 0)
    => /\ svc.res.kind = "raise"
       /\ svc.res.err = "unsupported"

\* C12 as amended: get_service fails with the unsupported-provider error and
\* constructs no adapter for every code without a registered adapter type
\* whose matched active provider has a credential; without a credential the
\* missing-credential error comes first.
C12_UnsupportedWithCredential ==
    (/\ svc.called
     /\ svc.code \notin RegisteredCodes
     /\ MatchedProvider # 0)
    => /\ svc.res.kind = "raise"
       /\ svc.res.adapter = NoAdapter
       /\ svc.res.err = IF providers[MatchedProvider].api_key # ""
                        THEN "unsupported" ELSE "no_credentials"

C12_Witness ==
    /\ svc.called
    /\ svc.code \notin RegisteredCodes
    /\ svc.res.err = "unsupported"
    /\ providers[MatchedProvider].api_key = "k2"

\* C13: for a registered code, when an active provider with a credential
\* exists for the code and the company, get_service returns an adapter of
\* the registered type that holds such a provider and its credential.
C13_AdapterForCredentialedProvider ==
    (/\ svc.called
     /\ svc.code \in RegisteredCodes
     /\ \E i \in 1..Len(providers) :
           /\ providers[i].code = svc.code
           /\ providers[i].active
           /\ providers[i].company_id = EffectiveCompany
           /\ providers[i].api_key # "")
    => /\ svc.res.kind = "adapter"
       /\ svc.res.adapter.cls =
             (CASE svc.code = "google"     -> "GoogleGeminiService"
                [] svc.code = "openai"     -> "OpenAIService"
                [] svc.code = "anthropic"  -> "AnthropicService"
                [] svc.code = "openrouter" -> "OpenRouterService")
       /\ svc.res.adapter.provider \in 1..Len(providers)
       /\ providers[svc.res.adapter.provider].code = svc.code
       /\ providers[svc.res.adapter.provider].active
       /\ providers[svc.res.adapter.provider].company_id = EffectiveCompany
       /\ svc.res.adapter.api_key = providers[svc.res.adapter.provider].api_key

----------------------------------------------------------------------------
(* Claims on the gathering of files (specification SpecGather) *)

Gathered == pc = "generate"

\* C14: the number of file entries gathered for a record, report plus
\* attachments, never exceeds the max_files of the selected model, for
\* every configuration, max_files = 0 with a report included.
C14_FileCountWithinMaxFiles ==
    Gathered => Len(files.file_data) <= cfg.max_files

IsAttachmentEntry(e) == e.filename = "att"

IsImageEntry(e) ==
    "mimetype" \in DOMAIN e /\ e.mimetype \in {"image/jpeg", "image/png"}

\* C15: the gathered file list is empty when the model's files_allowed is
\* false, holds attachment entries only when include_all_attachments is
\* set, and holds an image attachment only when images_allowed is true.
C15_FilesOnlyAsAllowed ==
    Gathered =>
        /\ ~cfg.files_allowed => files.file_data = <<>>
        /\ \A i \in 1..Len(files.file_data) :
              /\ IsAttachmentEntry(files.file_data[i])
                    => cfg.include_all_attachments
              /\ IsImageEntry(files.file_data[i]) => cfg.images_allowed

C15_Witness ==
    /\ Gathered
    /\ cfg.files_allowed /\ cfg.images_allowed /\ cfg.include_all_attachments
    /\ \E i, j \in 1..Len(files.file_data) :
          /\ IsImageEntry(files.file_data[i])
          /\ IsAttachmentEntry(files.file_data[j])
          /\ ~IsImageEntry(files.file_data[j])

----------------------------------------------------------------------------
(* Claims on the chat history (specification SpecChatter) *)

\* The message types each inclusion mode retains.
RetainedTypes(mode) ==
    CASE mode = "mails" -> {"email"}
      [] mode = "mails_notes" -> {"email", "comment"}
      [] mode = "all" -> {"email", "comment", "notification"}
      [] OTHER -> {}

RetainedMessages ==
    SelectSeq(env.messages,
              LAMBDA m : m.message_type \in RetainedTypes(cfg.include_chatter))

\* C16: the chat-history text holds one line per message the inclusion mode
\* retains, in the order of the messages: "mails" retains email only,
\* "mails_notes" email and comment, "all" all three types, and with "none"
\* the text is empty whatever the messages are.
C16_ChatterFilteredByMode ==
    Gathered =>
        /\ Len(files.chatter) =
              IF RetainedMessages = <<>> THEN 0 ELSE 7 * Len(RetainedMessages) - 1
        /\ \A k \in 1..Len(RetainedMessages) :
              /\ files.chatter[7 * (k - 1) + 1] = "["
              /\ files.chatter[7 * (k - 1) + 4] \in
                    {RetainedMessages[k].author, RetainedMessages[k].email_from,
                     "System"}
              /\ RetainedMessages[k].author # ""
                    => files.chatter[7 * (k - 1) + 4] = RetainedMessages[k].author
        /\ cfg.include_chatter = "none" => files.chatter = <<>>

C16_Witness ==
    /\ Gathered
    /\ cfg.include_chatter = "mails"
    /\ Len(env.messages) = 2
    /\ env.messages[1].message_type = "comment"
    /\ env.messages[2].message_type = "email"
    /\ Len(files.chatter) = 6

----------------------------------------------------------------------------
(* Claims on the steps of the loop (specification Spec) *)

InTrace(name, rec) == \E i \in 1..Len(trace) : trace[i] = Step(name, rec)

\* The notifications of one title raised for a record in this invocation.
Notices(title, rec) ==
    Cardinality({i \in 1..Len(notified) : notified[i] = Notice(title, rec)})

\* The place of a record in the batch.
Position(rec) == CHOOSE i \in 1..Len(batch) : batch[i] = rec

\* C17: when rendering the prompt template raised for a record, one
\* notification was raised for it, the record was skipped (no files
\* gathered, no generate_text call, nothing routed to it) and the loop has
\* moved past it.
C17_RenderFailureSkipsRecord ==
    \A rec \in Records :
        InTrace("render_raised", rec) =>
            /\ Notices("AI Action Error", rec) = 1
            /\ ~InTrace("gather", rec)
            /\ ~InTrace("generate", rec)
            /\ ~InTrace("route", rec)
            /\ idx > Position(rec)

C17_Witness ==
    /\ Len(batch) = 2
    /\ InTrace("render_raised", batch[1])
    /\ InTrace("generate", batch[2])

\* C18: when generate_text raised for a record, exactly one
\* generation-error notification was raised for it, nothing was routed to
\* it (no note, no field written) and the loop has moved past it.
C18_GenerateFailureSkipsRecord ==
    \A rec \in Records :
        InTrace("generate_raised", rec) =>
            /\ Notices("AI Generation Error", rec) = 1
            /\ ~InTrace("route", rec)
            /\ idx > Position(rec)

C18_Witness ==
    /\ Len(batch) = 2
    /\ InTrace("generate_raised", batch[1])
    /\ InTrace("route", batch[2])
    /\ notes[batch[1]] = <<>>
    /\ fieldval[batch[1]] = OldValue

\* C19: with destination "field" and an output field of another model,
\* routing the response to a record leaves every record as it was, raises
\* one notification for the record and goes on to the next record.
C19_ForeignFieldLeavesRecord ==
    [][(pc = "route" /\ cfg.output_destination = "field"
           /\ cfg.output_field = "other")
        => /\ notes' = notes
           /\ fieldval' = fieldval
           /\ notified' = Append(notified, Notice("AI Output Error", batch[idx]))
           /\ trace' = trace \o <<Step("route", batch[idx]),
                                  Step("route_false", batch[idx])>>
           /\ idx' = idx + 1
           /\ pc' = "loop"
           /\ outcome' = outcome]_vars

C19_Witness ==
    /\ cfg.output_destination = "field"
    /\ cfg.output_field = "other"
    /\ Len(batch) = 2
    /\ pc = "done"
    /\ \A i \in 1..2 : /\ InTrace("route", batch[i])
                       /\ Notices("AI Output Error", batch[i]) = 1
                       /\ fieldval[batch[i]] = OldValue

\* C20: with destination "chatter" every routing step that succeeds appends
\* exactly one note to its record, whatever notes the record already has,
\* and touches no other record: n invocations leave n notes.
C20_EachInvocationPostsOneNote ==
    [][(pc = "route" /\ cfg.output_destination = "chatter" /\ pc' = "loop")
        => notes' = [notes EXCEPT ![batch[idx]] =
                        Append(@, parse_markdown(response))]]_vars

C20_Witness ==
    /\ cfg.output_destination = "chatter"
    /\ invocations = 2
    /\ \E rec \in Records :
          /\ Len(notes[rec]) = 2
          /\ notes[rec][1] = notes[rec][2]

----------------------------------------------------------------------------
(* Claims on the preview wizard (specification SpecPreview) *)

\* C21: the preview wizard never acquires an adapter nor calls
\* generate_text and no error leaves it; when rendering the prompt for the
\* sample record fails or yields nothing the preview text is the fixed
\* placeholder, and when it succeeds the preview text is the prompt.
C21_PreviewOnlyRenders ==
    /\ ~svc.called
    /\ ~gen.called
    /\ ~Acquired
    /\ outcome # "raised"
    /\ wizard.rendered \in {"raise", "empty"}
          => wizard.preview_text = PreviewPlaceholder
    /\ wizard.rendered = "ok"
          => wizard.preview_text = _prepare_ai_prompt(cfg, wizard.object_ref, "ok").prompt
    /\ wizard.rendered = "none" => wizard.preview_text = <<>>

C21_Witness ==
    /\ wizard.open
    /\ wizard.rendered = "raise"
    /\ wizard.object_ref = 2
    /\ wizard.preview_text = PreviewPlaceholder
    /\ Notices("AI Action Error", 2) = 1

----------------------------------------------------------------------------
(* Claims on is_image_mimetype (specification SpecImage) *)

\* C22: is_image_mimetype(m) is true exactly when m is one of image/png,
\* image/jpeg, image/jpg, image/gif, image/webp, image/bmp, image/svg+xml,
\* image/tiff, by case-sensitive exact match, and false for every other
\* string, the empty string included.
C22_ImageAllowList ==
    img.called =>
        (img.result <=>
            \/ img.mimetype = "image/png"
            \/ img.mimetype = "image/jpeg"
            \/ img.mimetype = "image/jpg"
            \/ img.mimetype = "image/gif"
            \/ img.mimetype = "image/webp"
            \/ img.mimetype = "image/bmp"
            \/ img.mimetype = "image/svg+xml"
            \/ img.mimetype = "image/tiff")

C22_Witness ==
    /\ img.called
    /\ img.mimetype = "image/svg+xml"
    /\ img.result

----------------------------------------------------------------------------
(* Claims on the provider table (specification SpecFactory) *)

\* C23: after any sequence of provider creations and edits no two provider
\* rows have the same (code, company) pair.
C23_UniqueCodeCompany ==
    \A i, j \in 1..Len(providers) :
        (providers[i].code = providers[j].code
            /\ providers[i].company_id = providers[j].company_id) => i = j

----------------------------------------------------------------------------
(* Claims on the routing of the response (specification Spec) *)

OwnField == cfg.output_destination = "field" /\ cfg.output_field \in {"text", "html"}

\* C24: with destination "field" and an output field of the target model,
\* routing either writes to the record's field the HTML conversion of the
\* response when the field is html and the raw response otherwise, or, when
\* the write fails, writes nothing and raises one notification; either way
\* the loop goes on to the next record.
C24_FieldWriteByType ==
    [][(pc = "route" /\ OwnField)
        => /\ \/ /\ fieldval' = [fieldval EXCEPT ![batch[idx]] =
                                    IF cfg.output_field = "html"
                                    THEN <<"<p>">> \o response \o <<"</p>">>
                                    ELSE response]
                 /\ notified' = notified
              \/ /\ fieldval' = fieldval
                 /\ notified' = Append(notified,
                                       Notice("AI Output Error", batch[idx]))
           /\ notes' = notes
           /\ idx' = idx + 1
           /\ pc' = "loop"
           /\ outcome' = outcome]_vars

C24_Witness ==
    /\ cfg.output_destination = "field"
    /\ cfg.output_field = "html"
    /\ Len(batch) = 2
    /\ pc = "done"
    /\ Notices("AI Output Error", batch[1]) = 1
    /\ fieldval[batch[1]] = OldValue
    /\ fieldval[batch[2]] = <<"<p>", "md", "</p>">>

----------------------------------------------------------------------------
(* Claims on the order of the steps (specification Spec) *)

\* C25: within an invocation the adapter is acquired exactly once, before
\* any step on a record; generate_text is called for a record only after
\* its prompt was rendered without failure and is held; and a note or a
\* field is written only on the record being routed, after generate_text
\* returned a text for that record.
C25_StepsFollowControlFlow ==
    /\ [](/\ \A i \in 1..Len(trace) :
                /\ trace[i].step = "acquire" <=> i = 1
                /\ trace[i].step = "generate" =>
                      /\ \E j \in 1..(i - 1) : trace[j] = Step("render", trace[i].rec)
                      /\ ~InTrace("render_raised", trace[i].rec)
                /\ trace[i].step = "route" =>
                      /\ \E j \in 1..(i - 1) :
                            trace[j] = Step("generate", trace[i].rec)
                      /\ ~InTrace("generate_raised", trace[i].rec)
          /\ pc \in {"loop", "gather", "generate", "route"} => Acquired
          /\ pc = "generate" => prompt # <<>>
          /\ pc = "route" => /\ gen.called
                             /\ gen.ret.kind = "return"
                             /\ response = gen.ret.text
                             /\ Last(trace) = Step("generate", batch[idx]))
    /\ [][(notes' # notes \/ fieldval' # fieldval)
            => /\ pc = "route"
               /\ \A rec \in Records \ {batch[idx]} :
                     notes'[rec] = notes[rec] /\ fieldval'[rec] = fieldval[rec]]_vars

C25_Witness ==
    /\ pc = "done"
    /\ Len(batch) = 2
    /\ trace = <<Step("acquire", 0),
                 Step("render", batch[1]), Step("gather", batch[1]),
                 Step("generate", batch[1]), Step("route", batch[1]),
                 Step("render", batch[2]), Step("gather", batch[2]),
                 Step("generate", batch[2]), Step("route", batch[2])>>
    /\ \A i \in 1..2 : Len(notes[batch[i]]) >= 1

\* The place of a step among the steps of one record.
StepRank(name) ==
    CASE name = "render" -> 1
      [] name = "render_raised" -> 2
      [] name = "gather" -> 3
      [] name = "generate" -> 4
      [] name = "generate_raised" -> 5
      [] name = "generate_empty" -> 5
      [] name = "route" -> 6
      [] name = "route_false" -> 7
      [] OTHER -> 0

----------------------------------------------------------------------------
(* Claims on the max_files budget (specification SpecGather) *)

AttachmentsGathered ==
    Gathered /\ cfg.files_allowed /\ cfg.include_all_attachments

\* n0: the entries present before the attachments, that is the report
ReportEntries == Len(SelectSeq(files.file_data, LAMBDA e : ~IsAttachmentEntry(e)))

Budget == IF cfg.max_files > ReportEntries THEN cfg.max_files - ReportEntries ELSE 0

\* An attachment the model accepts, and one whose content cannot be read.
Appendable(a) ==
    \/ a.mimetype = "application/pdf"
    \/ a.mimetype \in {"image/jpeg", "image/png"} /\ cfg.images_allowed

Unreadable(a) == Appendable(a) /\ a.datas = "unreadable"

EntryOf(a) ==
    IF a.mimetype = "application/pdf"
    THEN [filename |-> a.name, data |-> a.datas]
    ELSE [filename |-> a.name, data |-> a.datas, mimetype |-> a.mimetype]

\* What examining the first n attachments found leaves in the file list.
EntriesOfFirst(n) ==
    LET kept == SelectSeq(SubSeq(found, 1, n),
                          LAMBDA a : Appendable(a) /\ ~Unreadable(a))
    IN  [i \in 1..Len(kept) |-> EntryOf(kept[i])]

UnreadableInFirst(n) ==
    Cardinality({i \in 1..n : Unreadable(found[i])})

\* The number of attachments examined when every attachment examined
\* without error takes one slot of the budget.
ExaminedCount ==
    CHOOSE n \in 0..Len(found) :
        /\ n = Len(found) \/ n - UnreadableInFirst(n) >= Budget
        /\ \A m \in 0..(n - 1) : m - UnreadableInFirst(m) < Budget

\* C27 as stated: only the first max(0, max_files - n0) attachments found
\* are examined, an image that is not appended taking a slot like any
\* other: the attachment entries and the attachment notifications are
\* those of that prefix.
C27_OnlyBudgetExamined ==
    AttachmentsGathered =>
        LET n == IF Budget < Len(found) THEN Budget ELSE Len(found)
        IN  /\ SelectSeq(files.file_data, IsAttachmentEntry) = EntriesOfFirst(n)
            /\ Notices("AI Attachment Error", 1) = UnreadableInFirst(n)

\* C27 amended: every attachment examined without error takes one slot of
\* the budget max(0, max_files - n0), an image left out because
\* images_allowed is false included, and an attachment whose processing
\* raises is notified and takes none; the loop stops when the budget is
\* used up.
C27_SkippedImageTakesSlot ==
    AttachmentsGathered =>
        /\ SelectSeq(files.file_data, IsAttachmentEntry)
              = EntriesOfFirst(ExaminedCount)
        /\ Notices("AI Attachment Error", 1) = UnreadableInFirst(ExaminedCount)
        /\ ExaminedCount - UnreadableInFirst(ExaminedCount) <= Budget

C27_Witness ==
    /\ AttachmentsGathered
    /\ ~cfg.images_allowed
    /\ Budget = 2
    /\ Len(found) = 3
    /\ found[1].mimetype = "image/png"
    /\ found[2].mimetype = "application/pdf" /\ found[2].datas = "b2"
    /\ found[3].mimetype = "application/pdf" /\ found[3].datas = "b2"
    /\ Len(files.file_data) = 1

----------------------------------------------------------------------------
(* Claims on empty results (specification Spec) *)

\* C28: when generate_text returned an empty text for a record without
\* raising, the record was skipped silently: nothing was routed to it (no
\* note, no field written), no generation or output notification was
\* raised for it, and the loop has moved past it.
C28_EmptyTextSkippedSilently ==
    \A rec \in Records :
        InTrace("generate_empty", rec) =>
            /\ ~InTrace("route", rec)
            /\ ~InTrace("generate_raised", rec)
            /\ Notices("AI Generation Error", rec) = 0
            /\ Notices("AI Output Error", rec) = 0
            /\ idx > Position(rec)

C28_Witness ==
    /\ Len(batch) = 2
    /\ pc = "done"
    /\ InTrace("generate_empty", batch[1])
    /\ InTrace("route", batch[2])
    /\ notified = <<>>
    /\ notes[batch[1]] = <<>>
    /\ fieldval[batch[1]] = OldValue

\* C29: with destination "field" and no output field configured, routing
\* the response writes nothing to any record, raises no notification,
\* reports success and the loop goes on to the next record.
C29_NoFieldDiscardsSilently ==
    [][(pc = "route" /\ cfg.output_destination = "field"
           /\ cfg.output_field = "none")
        => /\ notes' = notes
           /\ fieldval' = fieldval
           /\ notified' = notified
           /\ outcome' = outcome
           /\ trace' = Append(trace, Step("route", batch[idx]))
           /\ idx' = idx + 1
           /\ pc' = "loop"]_vars

C29_Witness ==
    /\ cfg.output_destination = "field"
    /\ cfg.output_field = "none"
    /\ Len(batch) = 2
    /\ pc = "done"
    /\ outcome = "False"
    /\ \A i \in 1..2 : InTrace("route", batch[i]) /\ ~InTrace("route_false", batch[i])
    /\ notified = <<>>
    /\ fieldval = [r \in Records |-> OldValue]

----------------------------------------------------------------------------
(* Claims on the order of the factory's checks (specification SpecFactory) *)

\* C30: get_service checks the provider lookup, then the credential, then
\* the adapter type: for a code without registered adapter type it fails
\* with the not-found error when no active provider of the company has the
\* code and with the missing-credential error when the matched provider has
\* no api_key, and the unsupported-provider error is raised only when the
\* matched active provider has a credential.
C30_ChecksInFixedOrder ==
    svc.called =>
        /\ svc.res.err = "not_found" <=> MatchedProvider = 0
        /\ svc.res.err = "no_credentials"
              <=> (MatchedProvider # 0 /\ providers[MatchedProvider].api_key = "")
        /\ svc.res.err = "unsupported"
              <=> (/\ MatchedProvider # 0
                   /\ providers[MatchedProvider].api_key # ""
                   /\ svc.code \notin RegisteredCodes)
        /\ svc.res.kind = "raise" <=> svc.res.err # ""

C30_Witness ==
    /\ svc.called
    /\ svc.code \notin RegisteredCodes
    /\ svc.res.err = "no_credentials"
    /\ Len(providers) = 2
    /\ \E i \in 1..2 : providers[i].code = svc.code /\ ~providers[i].active

====
